---- MODULE Spec2Model ----
(***************************************************************************)
(* The weather-station observer program of src/app.py: the subject         *)
(* WeatherStation, its observer list, the notification loop and the two    *)
(* sample observers, together with client observers whose update calls     *)
(* back into the subject.                                                  *)
(*                                                                         *)
(* Python values: None is the empty tuple <<>>, the integer v is <<v>>, so *)
(* that None differs from every integer, 0 included.                       *)
(***************************************************************************)
EXTENDS Integers, Sequences, FiniteSets, TLC

\* ---- bounds of the model -------------------------------------------------
MaxLen == 3
MaxHist == 2

\* ---- the objects the client creates --------------------------------------
Subjects == {"A", "B"}
Displays == {"d1"}
Statistics == {"s1", "s2"}
Removers == {"rm"}
Adders == {"ad"}
Reenterers == {"re"}
Observers == Displays \cup Statistics \cup Removers \cup Adders
\* the observers the clients below attach; the second tracker is attached
\* only where the trackers are told apart
Attachable == Observers \ {"s2"}
Temps == {0, 1}
MainTemps == {15, 21, 24, 29}

None == <<>>
Reading(v) == <<v>>

VARIABLES
    observers,      \* WeatherStation._observers, the list bound to the class
    temperature,    \* _temperature as read through each station
    temperatures,   \* StatisticsDisplay._temperatures, the list bound to the class
    shown,          \* the last line printed by _display_statistics
    stack,          \* the running notify_observers calls, innermost first
    result,         \* how the client's last call ended
    main,           \* position of the client code of __main__, and the readings it passed
    lastSet,        \* history: per station, the argument of its latest change_temperature
    removed,        \* history: the observers removed by the client and not added since
    received        \* history: per tracker, the number of update calls it got

vars == <<observers, temperature, temperatures, shown, stack, result, main, lastSet, removed, received>>

\* ---- list helpers --------------------------------------------------------
Range(seq) == {seq[i] : i \in 1..Len(seq)}

Count(seq, x) == Cardinality({i \in 1..Len(seq) : seq[i] = x})

FirstIndex(seq, x) == CHOOSE i \in 1..Len(seq) : seq[i] = x /\ \A j \in 1..(i - 1) : seq[j] # x

\* a removal that takes the last occurrence
RemoveLast(seq, x) ==
    LET i == CHOOSE k \in 1..Len(seq) : seq[k] = x /\ \A j \in (k + 1)..Len(seq) : seq[j] # x
    IN  SubSeq(seq, 1, i - 1) \o SubSeq(seq, i + 1, Len(seq))

\* list.remove(x) when x is in the list: the first occurrence goes
RemoveFirst(seq, x) == SubSeq(seq, 1, FirstIndex(seq, x) - 1) \o SubSeq(seq, FirstIndex(seq, x) + 1, Len(seq))

RECURSIVE SumSeq(_)
SumSeq(seq) == IF seq = <<>> THEN 0 ELSE seq[1][1] + SumSeq(Tail(seq))

MaxSeq(seq) == CHOOSE m \in {seq[i][1] : i \in 1..Len(seq)} : \A i \in 1..Len(seq) : seq[i][1] <= m

\* a minimum that stays at the first reading
MinSeqFirst(seq) == seq[1][1]

MinSeq(seq) == CHOOSE m \in {seq[i][1] : i \in 1..Len(seq)} : \A i \in 1..Len(seq) : m <= seq[i][1]

\* f"{sum/len:.1f}" in tenths: nearest tenth, an exact tie goes to the even digit
Fmt1(sum, n) ==
    LET q == (sum * 10) \div n
        r == (sum * 10) % n
    IN  IF 2 * r < n THEN q
        ELSE IF 2 * r > n THEN q + 1
        ELSE IF q % 2 = 0 THEN q ELSE q + 1

\* sum(), max() and min() of a list holding None raise TypeError
Raises(hist) == None \in Range(hist)

Stats(hist) == [sum |-> SumSeq(hist), n |-> Len(hist), avg1 |-> Fmt1(SumSeq(hist), Len(hist)),
                max |-> MaxSeq(hist), min |-> MinSeq(hist)]

\* self._temperatures: no tracker ever binds the name, so it is the class list
TemperaturesOf(o) == temperatures

\* ---- the subject ---------------------------------------------------------
\* self._observers: no instance ever binds the name, so it is the class list
Registry(s) == observers

\* a temperature kept in one place for all stations
CurrentStateShared(s) == temperature["A"]

\* the temperature property
CurrentState(s) == temperature[s]

\* a call of notify_observers at its first line; val, reent and inner are
\* history: the argument of the change_temperature that made the call, whether
\* an update of this pass has called change_temperature, and whether a pass
\* started that way has called updates and returned
NewPass(s, trig) == [subj |-> s, trig |-> trig, idx |-> 0, snap |-> Registry(s), log |-> <<>>, exc |-> "none",
                     val |-> None, reent |-> FALSE, inner |-> FALSE]

\* the pass of change_temperature(v)
SetPass(s, v) == [NewPass(s, "change_temperature") EXCEPT !.val = Reading(v)]

Idle == stack = <<>>

\* an add_observer that also notifies at once
AddObserverNotifying(s, o) ==
    /\ Idle
    /\ observers' = Append(Registry(s), o)
    /\ stack' = <<NewPass(s, "notify_observers")>>
    /\ result' = "running"
    /\ UNCHANGED <<temperature, temperatures, shown>>

AddObserver(s, o) ==
    /\ Idle
    /\ observers' = Append(Registry(s), o)
    /\ result' = "ok"
    /\ UNCHANGED <<temperature, temperatures, shown, stack>>

RemoveObserver(s, o) ==
    /\ Idle
    /\ IF o \in Range(Registry(s))
       THEN /\ observers' = RemoveFirst(Registry(s), o)
            /\ result' = "ok"
       ELSE /\ UNCHANGED observers
            /\ result' = "ValueError"
    /\ UNCHANGED <<temperature, temperatures, shown, stack>>

NotifyObservers(s) ==
    /\ Idle
    /\ stack' = <<NewPass(s, "notify_observers")>>
    /\ result' = "running"
    /\ UNCHANGED <<observers, temperature, temperatures, shown>>

ChangeTemperature(s, v) ==
    /\ Idle
    /\ temperature' = [temperature EXCEPT ![s] = Reading(v)]
    /\ stack' = <<SetPass(s, v)>>
    /\ result' = "running"
    /\ UNCHANGED <<observers, temperatures, shown>>

\* ---- the loop of notify_observers ----------------------------------------
Top == stack[1]

\* the list iterator has another item: the loop calls its update
HasNext == ~Idle /\ Top.exc = "none" /\ Top.idx < Len(Registry(Top.subj))

Current == Registry(Top.subj)[Top.idx + 1]

\* the frame after the loop took Current and called its update, which ended with exc
Called(exc) == [Top EXCEPT !.idx = Top.idx + 1,
                           !.log = Append(Top.log, <<Current, CurrentState(Top.subj)>>),
                           !.exc = exc]

UpdateDisplay ==
    /\ HasNext
    /\ Current \in Displays
    /\ stack' = <<Called("none")>> \o Tail(stack)
    /\ UNCHANGED <<observers, temperature, temperatures, shown, result>>

UpdateStats ==
    /\ HasNext
    /\ Current \in Statistics
    /\ temperatures' = Append(temperatures, CurrentState(Top.subj))
    /\ IF Raises(temperatures')
       THEN /\ stack' = <<Called("TypeError")>> \o Tail(stack)
            /\ UNCHANGED shown
       ELSE /\ stack' = <<Called("none")>> \o Tail(stack)
            /\ shown' = Stats(temperatures')
    /\ UNCHANGED <<observers, temperature, result>>

\* a client observer whose update calls subject.remove_observer(self)
UpdateRemover ==
    /\ HasNext
    /\ Current \in Removers
    /\ observers' = RemoveFirst(Registry(Top.subj), Current)
    /\ stack' = <<Called("none")>> \o Tail(stack)
    /\ UNCHANGED <<temperature, temperatures, shown, result>>

\* a client observer whose update calls subject.add_observer(x)
UpdateAdder(x) ==
    /\ HasNext
    /\ Current \in Adders
    /\ observers' = Append(Registry(Top.subj), x)
    /\ stack' = <<Called("none")>> \o Tail(stack)
    /\ UNCHANGED <<temperature, temperatures, shown, result>>

\* a client observer whose update calls subject.change_temperature(0) unless
\* the subject reads 0: the assignment and the call of notify_observers happen
\* inside this update, on top of the pass that called it
UpdateReenter ==
    /\ HasNext
    /\ Current \in Reenterers
    /\ IF CurrentState(Top.subj) # Reading(0)
       THEN /\ temperature' = [temperature EXCEPT ![Top.subj] = Reading(0)]
            /\ stack' = <<SetPass(Top.subj, 0), [Called("none") EXCEPT !.reent = TRUE]>> \o Tail(stack)
       ELSE /\ stack' = <<Called("none")>> \o Tail(stack)
            /\ UNCHANGED temperature
    /\ UNCHANGED <<observers, temperatures, shown, result>>

\* the stack once the innermost call has ended with exc: a call made from an
\* update hands its outcome to the pass that called that update
Unwind(exc) ==
    IF Len(stack) > 1
    THEN <<[stack[2] EXCEPT !.exc = exc, !.inner = @ \/ Top.inner \/ Top.log # <<>>]>> \o SubSeq(stack, 3, Len(stack))
    ELSE <<>>

\* the iterator is exhausted: notify_observers returns to its caller
ReturnPass ==
    /\ ~Idle
    /\ Top.exc = "none"
    /\ Top.idx >= Len(Registry(Top.subj))
    /\ stack' = Unwind("none")
    /\ result' = IF Tail(stack) = <<>> THEN "ok" ELSE result
    /\ UNCHANGED <<observers, temperature, temperatures, shown>>

\* a loop that swallows the exception of an update and goes on
PropagateSwallowed ==
    /\ ~Idle
    /\ Top.exc # "none"
    /\ stack' = <<[Top EXCEPT !.exc = "none"]>> \o Tail(stack)
    /\ UNCHANGED <<observers, temperature, temperatures, shown, result>>

\* nothing catches: the exception leaves notify_observers and its caller
Propagate ==
    /\ ~Idle
    /\ Top.exc # "none"
    /\ stack' = Unwind(Top.exc)
    /\ result' = IF Tail(stack) = <<>> THEN Top.exc ELSE result
    /\ UNCHANGED <<observers, temperature, temperatures, shown>>

\* ---- the program ---------------------------------------------------------
Init ==
    /\ observers = <<>>
    /\ temperature = [s \in Subjects |-> None]
    /\ temperatures = <<>>
    /\ shown = None
    /\ stack = <<>>
    /\ result = "ok"
    /\ main = [pc |-> 0, readings |-> <<>>]
    /\ lastSet = [s \in Subjects |-> None]
    /\ removed = {}
    /\ received = [o \in Statistics |-> 0]

\* any client: every call on every station, the lists capped at MaxLen and MaxHist
Add == \E s \in Subjects, o \in Attachable :
    Len(observers) < MaxLen /\ AddObserver(s, o) /\ UNCHANGED <<main, lastSet, removed, received>>

Remove == \E s \in Subjects, o \in Attachable :
    RemoveObserver(s, o) /\ UNCHANGED <<main, lastSet, removed, received>>

Notify == \E s \in Subjects : NotifyObservers(s) /\ UNCHANGED <<main, lastSet, removed, received>>

Change == \E s \in Subjects, v \in Temps :
    /\ ChangeTemperature(s, v)
    /\ lastSet' = [lastSet EXCEPT ![s] = Reading(v)]
    /\ UNCHANGED <<main, removed, received>>

DisplayStep == UpdateDisplay /\ UNCHANGED <<main, lastSet, removed, received>>

StatsStep == Len(temperatures) < MaxHist /\ UpdateStats /\ UNCHANGED <<main, lastSet, removed, received>>

RemoverStep == UpdateRemover /\ UNCHANGED <<main, lastSet, removed, received>>

AdderStep == \E x \in Attachable :
    Len(observers) < MaxLen /\ UpdateAdder(x) /\ UNCHANGED <<main, lastSet, removed, received>>

Return == ReturnPass /\ UNCHANGED <<main, lastSet, removed, received>>

Raise == Propagate /\ UNCHANGED <<main, lastSet, removed, received>>

Next ==
    \/ Add
    \/ Remove
    \/ Notify
    \/ Change
    \/ DisplayStep
    \/ StatsStep
    \/ RemoverStep
    \/ AdderStep
    \/ Return
    \/ Raise

Spec == Init /\ [][Next]_vars

\* ---- the client code of __main__, its four readings drawn from MainTemps --
MainObservers == <<"d1", "s1">>

MainAdd ==
    /\ main.pc \in {0, 1}
    /\ result = "ok"
    /\ AddObserver("A", MainObservers[main.pc + 1])
    /\ main' = [main EXCEPT !.pc = @ + 1]
    /\ UNCHANGED <<lastSet, removed, received>>

MainChange == \E v \in MainTemps :
    /\ main.pc \in {2, 3, 4, 6}
    /\ result = "ok"
    /\ ChangeTemperature("A", v)
    /\ main' = [pc |-> main.pc + 1, readings |-> Append(main.readings, v)]
    /\ lastSet' = [lastSet EXCEPT !["A"] = Reading(v)]
    /\ UNCHANGED <<removed, received>>

MainRemove ==
    /\ main.pc = 5
    /\ result = "ok"
    /\ RemoveObserver("A", MainObservers[1])
    /\ main' = [main EXCEPT !.pc = @ + 1]
    /\ UNCHANGED <<lastSet, removed, received>>

MainStats == UpdateStats /\ UNCHANGED <<main, lastSet, removed, received>>

NextMain ==
    \/ MainAdd
    \/ MainChange
    \/ MainRemove
    \/ DisplayStep
    \/ MainStats
    \/ Return

SpecMain == Init /\ [][NextMain]_vars

\* ---- a client of one station that keeps track of what it removed ---------
OneAdd == \E o \in Attachable :
    /\ Len(observers) < MaxLen
    /\ AddObserver("A", o)
    /\ removed' = removed \ {o}
    /\ UNCHANGED <<main, lastSet, received>>

OneRemove == \E o \in Attachable :
    /\ RemoveObserver("A", o)
    /\ removed' = IF o \in Range(observers) THEN removed \cup {o} ELSE removed
    /\ UNCHANGED <<main, lastSet, received>>

OneChange ==
    /\ ChangeTemperature("A", 0)
    /\ lastSet' = [lastSet EXCEPT !["A"] = Reading(0)]
    /\ UNCHANGED <<main, removed, received>>

OneAdderStep == \E x \in Attachable :
    /\ Len(observers) < MaxLen
    /\ UpdateAdder(x)
    /\ removed' = removed \ {x}
    /\ UNCHANGED <<main, lastSet, received>>

NextRemoval ==
    \/ OneAdd
    \/ OneRemove
    \/ OneChange
    \/ DisplayStep
    \/ StatsStep
    \/ RemoverStep
    \/ OneAdderStep
    \/ Return

SpecRemoval == Init /\ [][NextRemoval]_vars

\* ---- a client of one station that tells its trackers apart ----------------
StatsAdd == \E o \in Displays \cup Statistics :
    /\ Len(observers) < MaxLen
    /\ AddObserver("A", o)
    /\ UNCHANGED <<main, lastSet, removed, received>>

StatsChange == \E v \in Temps :
    /\ ChangeTemperature("A", v)
    /\ lastSet' = [lastSet EXCEPT !["A"] = Reading(v)]
    /\ UNCHANGED <<main, removed, received>>

StatsTrack ==
    /\ Len(temperatures) < MaxHist
    /\ UpdateStats
    /\ received' = [received EXCEPT ![Current] = @ + 1]
    /\ UNCHANGED <<main, lastSet, removed>>

NextStats ==
    \/ StatsAdd
    \/ StatsChange
    \/ DisplayStep
    \/ StatsTrack
    \/ Return

SpecStats == Init /\ [][NextStats]_vars

\* ---- a client of one station whose observers may set the temperature -----
ReAdd == \E o \in Displays \cup {"s1"} \cup Reenterers :
    /\ Len(observers) < MaxLen
    /\ AddObserver("A", o)
    /\ UNCHANGED <<main, lastSet, removed, received>>

ReChange == \E v \in Temps :
    /\ ChangeTemperature("A", v)
    /\ lastSet' = [lastSet EXCEPT !["A"] = Reading(v)]
    /\ UNCHANGED <<main, removed, received>>

ReenterStep ==
    /\ UpdateReenter
    /\ lastSet' = IF CurrentState(Top.subj) # Reading(0)
                  THEN [lastSet EXCEPT ![Top.subj] = Reading(0)]
                  ELSE lastSet
    /\ UNCHANGED <<main, removed, received>>

NextReentry ==
    \/ ReAdd
    \/ ReChange
    \/ DisplayStep
    \/ StatsStep
    \/ ReenterStep
    \/ Return

SpecReentry == Init /\ [][NextReentry]_vars

\* ---- properties ----------------------------------------------------------
TypeOK ==
    /\ observers \in Seq(Observers \cup Reenterers)
    /\ \A s \in Subjects : temperature[s] = None \/ Len(temperature[s]) = 1
    /\ Len(stack) <= 2
    /\ result \in {"ok", "running", "ValueError", "TypeError"}

\* the observers whose update the running pass has called, in call order
Invoked(log) == [i \in 1..Len(log) |-> log[i][1]]

\* the loop of the running pass has run out of items and is about to return
PassOver == ~Idle /\ Top.exc = "none" /\ Top.idx >= Len(Registry(Top.subj))

\* the running pass calls no further update: it ran out of items, or an update raised
PassEnded == ~Idle /\ (Top.exc # "none" \/ Top.idx >= Len(Registry(Top.subj)))

FromSetState == ~Idle /\ Top.trig = "change_temperature"

\* C1: when the pass started by a change_temperature call ends, the updates it
\* called are exactly the observers registered when it started, each entry of
\* the list once and in the order in which they were added.
C1_RegistrationOrder ==
    (PassEnded /\ FromSetState) => Invoked(Top.log) = Top.snap

\* C2: a pass that started on [o1, o2, o3], where o2's update removes o2 from
\* the station, o1 is a display and o3 a statistics tracker, ends without a
\* failure having called o1.update and o3.update once each, o1 before o3.
C2_SelfRemovalSafe ==
    (/\ PassEnded
     /\ Len(Top.snap) = 3
     /\ Top.snap[2] \in Removers
     /\ Top.snap[1] \in Displays
     /\ Top.snap[3] \in Statistics)
    => LET Keep(o) == o \in {Top.snap[1], Top.snap[3]}
       IN  /\ Top.exc = "none"
           /\ SelectSeq(Invoked(Top.log), Keep) = <<Top.snap[1], Top.snap[3]>>

\* C3: add_observer and remove_observer called on one station leave the list
\* of observers that every other station notifies as it was.
C3_PerInstanceRegistry ==
    [][\A s \in Subjects, o \in Observers :
          (AddObserver(s, o) \/ RemoveObserver(s, o))
          => \A t \in Subjects \ {s} : Registry(t)' = Registry(t)]_vars

\* C4: remove_observer(o) on a station whose list has no occurrence of o ends
\* without a failure and leaves the list and the temperatures as they were.
C4_RemoveAbsentNoOp ==
    [][\A s \in Subjects, o \in Observers :
          (RemoveObserver(s, o) /\ o \notin Range(Registry(s)))
          => (result' = "ok" /\ observers' = observers /\ temperature' = temperature)]_vars

\* C5: once the client has removed an observer ok, a pass started by
\* change_temperature while ok has no occurrence left has, when it ends,
\* called update on every observer that was registered when it started and
\* still is, and not on ok unless ok was added again.
C5_Removal ==
    (PassEnded /\ FromSetState /\ \E ok \in removed : ok \notin Range(Top.snap)) =>
        /\ \A o \in Range(Top.snap) \cap Range(Registry(Top.subj)) : o \in Range(Invoked(Top.log))
        /\ \A ok \in removed : ok \notin Range(Top.snap) => ok \notin Range(Invoked(Top.log))

\* C9: the updates a pass has called are entries of the list as it was when
\* the pass started: no observer is called more often in the pass than it
\* occurred in that list, so one appended during the pass is not called in it.
C9_SnapshotForAdditions ==
    ~Idle => \A o \in Observers : Count(Invoked(Top.log), o) <= Count(Top.snap, o)

\* C10: the pass of a change_temperature call never calls more updates than
\* the list held when the pass started, whatever the updates add to the list.
C10_PassBounded ==
    FromSetState => Len(Top.log) <= Len(Top.snap)

\* C6: a station on which change_temperature was never called reads None,
\* which is not the reading 0; any other station reads the argument of its
\* latest change_temperature call, whatever was added, removed or notified.
C6_AbsentState ==
    \A s \in Subjects :
        /\ lastSet[s] = None => (CurrentState(s) = None /\ CurrentState(s) # Reading(0))
        /\ lastSet[s] # None => CurrentState(s) = lastSet[s]

\* one station was set twice, last to 0, with observers attached; the other never
C6_Witness ==
    /\ Idle
    /\ observers # <<>>
    /\ temperatures # <<>>
    /\ lastSet["A"] = Reading(0)
    /\ CurrentState("A") = Reading(0)
    /\ lastSet["B"] = None
    /\ CurrentState("B") = None

\* the step in which an update called by the running pass raises
UpdateRaises == ~Idle /\ Top.exc = "none" /\ stack' # <<>> /\ stack'[1].exc # "none"

\* C7: an update that raises leaves the observer list as it was and, in a pass
\* started by change_temperature, finds the station already reading the new
\* value; the next step ends the pass with no further update, hands the
\* exception to the client and changes neither the list nor the temperatures.
C7_FailurePropagates ==
    [][/\ UpdateRaises =>
            /\ observers' = observers
            /\ Top.trig = "change_temperature" =>
                   (lastSet[Top.subj] # None /\ temperature'[Top.subj] = lastSet[Top.subj])
       /\ (~Idle /\ Top.exc # "none") =>
            /\ stack' = <<>>
            /\ result' = Top.exc
            /\ observers' = observers
            /\ temperature' = temperature]_vars

\* an update of a change_temperature pass has raised while a later observer waits
C7_Witness ==
    /\ FromSetState
    /\ Top.exc = "TypeError"
    /\ Top.idx < Len(Registry(Top.subj))
    /\ Registry(Top.subj) = Top.snap
    /\ CurrentState(Top.subj) = lastSet[Top.subj]

\* the readings of the client code
Script == <<24, 29, 15, 21>>

OnScript == main.readings = SubSeq(Script, 1, Len(main.readings))

History(k) == [i \in 1..k |-> Reading(Script[i])]

Delivered(os, v) == [i \in 1..Len(os) |-> <<os[i], Reading(v)>>]

ScriptMax == <<24, 29, 29, 29>>
ScriptMin == <<24, 24, 15, 15>>

\* C8: in the client code run with the readings 24, 29, 15, 21 no call fails;
\* each of the first three passes calls the display and then the tracker with
\* the new reading, and leaves the history [24], [24,29], [24,29,15] with
\* max/min 24/24, 29/24, 29/15; after remove_observer(display) the fourth pass
\* calls the tracker alone and leaves history [24,29,15,21], max 29, min 15
\* and the mean of sum 89 over 4 readings.
C8_EndToEnd ==
    OnScript =>
        /\ result \in {"ok", "running"}
        /\ ~Idle => Top.exc = "none"
        /\ \A k \in 1..4 :
               (main.pc = (IF k = 4 THEN 7 ELSE k + 2) /\ Len(main.readings) = k) =>
                   /\ PassOver =>
                          Top.log = Delivered(IF k = 4 THEN <<"s1">> ELSE <<"d1", "s1">>, Script[k])
                   /\ (PassOver \/ Idle) =>
                          /\ temperatures = History(k)
                          /\ shown.max = ScriptMax[k]
                          /\ shown.min = ScriptMin[k]
                          /\ shown.n = k
                          /\ k = 4 => shown.sum = 89

\* the client code has run to its end on the readings 24, 29, 15, 21
C8_Witness ==
    /\ main.pc = 7
    /\ Idle
    /\ result = "ok"
    /\ main.readings = Script
    /\ observers = <<"s1">>
    /\ shown.sum = 89

\* C14: add_observer always succeeds and appends one occurrence of its
\* argument, remove_observer takes one occurrence away when there is one and
\* none otherwise, no other observer's number of occurrences changes, and a
\* pass that has run to its end without a failure has called each observer's
\* update as many times as the observer occurred in the list when it started.
C14_Multiplicity ==
    [][/\ \A s \in Subjects, o \in Observers :
              AddObserver(s, o) =>
                  /\ result' = "ok"
                  /\ Count(observers', o) = Count(observers, o) + 1
                  /\ \A x \in Observers \ {o} : Count(observers', x) = Count(observers, x)
       /\ \A s \in Subjects, o \in Observers :
              RemoveObserver(s, o) =>
                  /\ Count(observers', o) = Count(observers, o) - (IF o \in Range(observers) THEN 1 ELSE 0)
                  /\ \A x \in Observers \ {o} : Count(observers', x) = Count(observers, x)
       /\ (PassOver => \A o \in Observers : Count(Invoked(Top.log), o) = Count(Top.snap, o))']_vars

\* C15: a remove_observer(o) that finds o shortens the list by one: the entry
\* that goes is the earliest o, the entries before it stay in place and the
\* entries after it, later occurrences of o included, move up in order; any
\* other step that shortens the list takes out one entry in the same way.
C15_RemovesEarliest ==
    [][/\ \A o \in Observers :
              (RemoveObserver("A", o) /\ o \in Range(observers)) =>
                  \E i \in 1..Len(observers) :
                      /\ observers[i] = o
                      /\ \A j \in 1..(i - 1) : observers[j] # o
                      /\ Len(observers') = Len(observers) - 1
                      /\ \A j \in 1..Len(observers') :
                             observers'[j] = IF j < i THEN observers[j] ELSE observers[j + 1]
       /\ Len(observers') < Len(observers) =>
              \E i \in 1..Len(observers) :
                  /\ \A j \in 1..(i - 1) : observers[j] # observers[i]
                  /\ Len(observers') = Len(observers) - 1
                  /\ \A j \in 1..Len(observers') :
                         observers'[j] = IF j < i THEN observers[j] ELSE observers[j + 1]]_vars

\* the client removed an observer that occurred more than once: another entry
\* is now first and a later occurrence of the removed observer is still listed
C15_Witness ==
    /\ Idle
    /\ result = "ok"
    /\ Len(observers) >= 2
    /\ observers[Len(observers)] \in removed
    /\ observers[1] \notin removed

\* C16: the tracker's history never holds None, and no update fails in a pass
\* that runs on a station whose temperature was never set.
C16_AbsentHandled ==
    /\ None \notin Range(temperatures)
    /\ (~Idle /\ CurrentState(Top.subj) = None) => Top.exc = "none"

\* C17: add_observer and remove_observer, called by the client or from an
\* update, leave every temperature, the tracker's history and its printed line
\* as they were and start no pass; a pass starts from rest only by
\* change_temperature or notify_observers.
C17_RegistrationNoEffect ==
    [][/\ Idle =>
              \A s \in Subjects, o \in Observers :
                  (AddObserver(s, o) \/ RemoveObserver(s, o)) =>
                      /\ temperature' = temperature
                      /\ temperatures' = temperatures
                      /\ shown' = shown
                      /\ stack' = <<>>
       /\ (UpdateRemover \/ \E x \in Observers : UpdateAdder(x)) =>
              /\ temperature' = temperature
              /\ Len(stack') = Len(stack)
              /\ Len(stack'[1].log) = Len(Top.log) + 1
       /\ (Idle /\ stack' # <<>>) =>
              \E s \in Subjects :
                  NotifyObservers(s) \/ \E v \in Temps : ChangeTemperature(s, v)]_vars

\* a tracker was added after the station's latest change_temperature: it is
\* listed, the station still reads that value and no update has reached a tracker
C17_Witness ==
    /\ Idle
    /\ result = "ok"
    /\ lastSet["A"] = Reading(1)
    /\ CurrentState("A") = Reading(1)
    /\ "s1" \in Range(observers)
    /\ temperatures = <<>>

\* C13: the history each tracker reads as its own has as many entries as that
\* tracker has received update calls, whichever trackers exist.
C13_HistoryPerInstance ==
    \A o \in Statistics : Len(TemperaturesOf(o)) = received[o]

\* the pass that is innermost before a step, as it is after the step
After == stack'[Len(stack') - Len(stack) + 1]

\* a step in which the innermost pass calls an update
Delivers == ~Idle /\ Len(stack') >= Len(stack) /\ Len(After.log) = Len(Top.log) + 1

\* the reading the update called in this step finds
ReadNow == After.log[Len(After.log)][2]

\* a step in which the innermost notify_observers returns
Returns == ~Idle /\ Top.exc = "none" /\ Len(stack') < Len(stack)

\* C11: every update called by the pass of change_temperature(v)
\* finds the station reading v, and no temperature changes in the step of an
\* update call.
C11_StateStable ==
    [][Delivers =>
           /\ Top.trig = "change_temperature" => ReadNow = Top.val
           /\ temperature' = temperature]_vars

\* C12: a pass calls no update once a pass of another
\* change_temperature call has called updates in the middle of it, and the
\* notify_observers of a change_temperature returns only when its loop has run
\* out of entries.
C12_NoInterleaving ==
    [][/\ Delivers => ~Top.inner
       /\ (Returns /\ Top.trig = "change_temperature") => Top.idx >= Len(Registry(Top.subj))]_vars

====
